---------------------------- MODULE Spec2Model ----------------------------
(***************************************************************************)
(* Model of ast2400mf.py: the pin-table expression parser (parse_pd ...    *)
(* gen_pins) and the network builder (get_all_pds, gen_bit_sigs_lookup,    *)
(* find_networks, print_networks).                                         *)
(*                                                                         *)
(* Text is modelled at lexeme level.  A token (one whitespace-delimited    *)
(* word of a line) is a sequence of lexemes; a lexeme is                   *)
(*   [k |-> "pd", reg, spec]  the text REG[bit-spec] of a descriptor,      *)
(*   [k |-> "ch", c]          one character: = ! & | or a decimal digit,   *)
(*   [k |-> "w",  c]          a run of letters/digits that holds no        *)
(*                            operator, is not all digits and does not     *)
(*                            start a descriptor (a pin or signal name).   *)
(* Python's None is the record None; a returned token list of None is      *)
(* modelled as the empty list (the callers only test `not toks`).          *)
(***************************************************************************)
EXTENDS Integers, Sequences, FiniteSets, TLC

VARIABLES
    lines,      \* sys.stdin.readlines(): the raw pin lines, tokenised
    filt,       \* pinf: the optional filter list (<<>> when absent)
    pins,       \* the list gen_pins returns
    pc,         \* position in the batch pipeline
    pds,        \* find_networks: keys of get_all_pds(pins), insertion order
    bsigs,      \* find_networks: the lookup of gen_bit_sigs_lookup
    pdi,        \* find_networks: index of the seed descriptor in pds
    q,          \* find_networks: the flood-fill work queue
    rels,       \* find_networks: the component being collected
    nets,       \* find_networks: the list of collected components
    netset,     \* the frozenset of frozensets find_networks returns
    todo,       \* print_networks: networks not yet visited
    allbits,    \* print_networks: common bits claimed so far
    out,        \* standard output: the network reports printed
    diag,       \* standard output: the pin printed by get_bit_sigs
    exc,        \* the exception that ended the run ("" when none)
    ptoks,      \* parser harness: the token list handed to parse_expr
    psrc,       \* parser harness: the comparison chain ptoks was written from
    presult     \* parser harness: what parse_expr returned

vars == <<lines, filt, pins, pc, pds, bsigs, pdi, q, rels, nets, netset, todo,
          allbits, out, diag, exc, ptoks, psrc, presult>>

netvars == <<lines, filt, pins, pds, bsigs, pdi, q, rels, nets, netset, todo,
             allbits, out, diag, exc>>

-----------------------------------------------------------------------------
(* Values *)

None == [k |-> "none"]

Ch(c) == [k |-> "ch", c |-> c]

W(c) == [k |-> "w", c |-> c]

PdLex(reg, spec) == [k |-> "pd", reg |-> reg, spec |-> spec]

pd_t(reg, mask) == [k |-> "pd", reg |-> reg, mask |-> mask]

bop_t(type, a, b) == [k |-> "bop", type |-> type, a |-> a, b |-> b]

Lit(v) == [k |-> "lit", v |-> v]

sig_t(sig, expr) == [k |-> "sig", sig |-> sig, expr |-> expr]

pin_t(pin, default, high, low, other) ==
    [pin |-> pin, default |-> default, high |-> high, low |-> low, other |-> other]

Digits == {"0", "1", "2", "3", "4", "5", "6", "7", "8", "9"}

Tail1(s) == IF s = <<>> THEN <<>> ELSE Tail(s)

Head1(s) == IF s = <<>> THEN <<>> ELSE <<Head(s)>>

SeqToSet(s) == {s[i] : i \in DOMAIN s}

InSeq(x, s) == \E i \in DOMAIN s : s[i] = x

-----------------------------------------------------------------------------
(* Expression parser *)

\* one item of a bit-spec: <<n>> is "n", <<hi, lo>> is "hi:lo"
RangeBits(item) == IF Len(item) >= 2 THEN item[2] .. item[1] ELSE {item[1]}

get_mask_bits(spec) == UNION {RangeBits(spec[i]) : i \in DOMAIN spec}

\* str.replace(lexeme, ""): every occurrence of one lexeme removed
RECURSIVE RemoveLex(_, _)
RemoveLex(tok, lx) ==
    IF tok = <<>> THEN <<>>
    ELSE IF Head(tok) = lx THEN RemoveLex(Tail(tok), lx)
    ELSE <<Head(tok)>> \o RemoveLex(Tail(tok), lx)

\* str.replace("!=", ""): every non-overlapping occurrence, left to right
RECURSIVE RemoveNe(_)
RemoveNe(tok) ==
    IF tok = <<>> THEN <<>>
    ELSE IF Len(tok) >= 2 /\ tok[1] = Ch("!") /\ tok[2] = Ch("=")
         THEN RemoveNe(Tail(Tail(tok)))
    ELSE <<Head(tok)>> \o RemoveNe(Tail(tok))

parse_pd(toks) ==
    IF toks[1] # <<>> /\ toks[1][1].k = "pd"
    THEN LET lx == toks[1][1]
         IN  [val |-> pd_t(lx.reg, get_mask_bits(lx.spec)),
              rest |-> <<RemoveLex(toks[1], lx)>> \o Tail(toks)]
    ELSE [val |-> None, rest |-> toks]

IsDigitLex(lx) == lx.k = "ch" /\ lx.c \in Digits

parse_lit(toks) ==
    IF toks[1] # <<>> /\ \A i \in DOMAIN toks[1] : IsDigitLex(toks[1][i])
    THEN [val |-> Lit(toks[1]), rest |-> Tail(toks)]
    ELSE [val |-> None, rest |-> toks]

parse_arg(toks) ==
    IF toks = <<>> THEN [val |-> None, rest |-> <<>>]
    ELSE LET r == parse_pd(toks)
         IN  IF r.val = None THEN parse_lit(r.rest) ELSE r

\* re.search(r"(!?=|[&|])", tok): does a match start at position i
OpAt(tok, i) ==
    \/ tok[i] \in {Ch("="), Ch("&"), Ch("|")}
    \/ tok[i] = Ch("!") /\ i < Len(tok) /\ tok[i + 1] = Ch("=")

\* parse_bop's "no operator" result (None); an operator is a string
NoOp == ""

parse_bop(toks) ==
    IF toks = <<>> THEN [val |-> NoOp, rest |-> <<>>]
    ELSE LET tok == toks[1]
             at  == {i \in DOMAIN tok : OpAt(tok, i)}
         IN  IF at = {} THEN [val |-> NoOp, rest |-> toks]
             ELSE LET i  == CHOOSE j \in at : \A m \in at : j <= m
                      op == IF tok[i] = Ch("!") THEN "!=" ELSE tok[i].c
                  IN  IF op = "="
                      THEN [val |-> op,
                            rest |-> <<RemoveLex(tok, Ch("="))>> \o Tail(toks)]
                      ELSE IF op = "!="
                      THEN [val |-> op, rest |-> <<RemoveNe(tok)>> \o Tail(toks)]
                      ELSE [val |-> op, rest |-> Tail(toks)]

RECURSIVE parse_expr(_, _)
\* the part of parse_expr after `a` is known (lines 76-86)
parse_expr_tail(toks0, a) ==
    LET bp == parse_bop(toks0)
    IN  IF bp.val = NoOp THEN [val |-> a, rest |-> bp.rest]
        ELSE LET toks == bp.rest
                 ba   == parse_arg(toks)
             IN  IF ba.val = None THEN [val |-> None, rest |-> toks]
                 ELSE LET b == IF ba.rest # <<>>
                               THEN parse_expr(Head1(ba.rest), ba.val).val
                               ELSE ba.val
                          expr == bop_t(bp.val, a, b)
                          r    == parse_expr(Tail1(toks), expr)
                      IN  [val |-> IF r.val = None THEN expr ELSE r.val,
                           rest |-> r.rest]

parse_expr(toks, a) ==
    IF toks = <<>> THEN [val |-> None, rest |-> <<>>]
    ELSE IF a = None
    THEN LET pa == parse_arg(toks)
         IN  IF pa.val = None THEN [val |-> None, rest |-> toks]
             ELSE parse_expr_tail(Tail(toks),
                                  parse_expr(Head1(pa.rest), pa.val).val)
    ELSE parse_expr_tail(toks, a)

parse_sig(toks) ==
    IF toks = <<>> THEN [val |-> None, rest |-> <<>>]
    ELSE LET r == parse_expr(Tail(toks), None)
         IN  [val |-> sig_t(toks[1], r.val), rest |-> r.rest]


\* one line of the table: pin, default, high clause, low clause, group label
gen_pin(toks) ==
    LET mid == SubSeq(toks, 3, Len(toks) - 1)
        hi  == parse_sig(mid)
        lo  == parse_sig(hi.rest)
    IN  pin_t(toks[1], toks[2], hi.val, lo.val, toks[Len(toks)])

\* a blank line is the empty token list; filt = <<>> is "no filter"
RECURSIVE gen_pins(_, _)
gen_pins(src, flt) ==
    IF src = <<>> THEN <<>>
    ELSE LET line == Head(src)
             more == gen_pins(Tail(src), flt)
         IN  IF line = <<>> THEN more
             ELSE IF flt # <<>> /\ ~InSeq(line[Len(line)], flt) THEN more
             ELSE <<gen_pin(line)>> \o more

-----------------------------------------------------------------------------
(* Network builder: pure helpers *)

is_simple(expr) == expr.type \in {"=", "!="}

is_compound(expr) == ~is_simple(expr)

RECURSIVE get_simple_pds(_)
get_simple_pds(expr) ==
    IF is_simple(expr) THEN <<expr.a>>
    ELSE get_simple_pds(expr.a) \o get_simple_pds(expr.b)

RECURSIVE get_pds(_)
get_pds(expr) ==
    IF expr = None THEN <<>>
    ELSE IF expr.type \in {"=", "!="} THEN <<expr.a>>
    ELSE get_pds(expr.a) \o get_pds(expr.b)

\* first occurrences, in order (the insertion order of a dict's keys)
RECURSIVE Dedup(_)
Dedup(s) ==
    IF s = <<>> THEN <<>>
    ELSE LET d == Dedup(SubSeq(s, 1, Len(s) - 1))
             x == s[Len(s)]
         IN  IF InSeq(x, d) THEN d ELSE Append(d, x)

\* the signals get_all_pds and get_bit_sigs visit on one pin
PinSigs(pin) == <<pin.high>> \o (IF pin.low # None THEN <<pin.low>> ELSE <<>>)

RECURSIVE PinsPds(_)
PinsPds(ps) ==
    IF ps = <<>> THEN <<>>
    ELSE LET pin == Head(ps)
         IN  get_pds(pin.high.expr)
               \o (IF pin.low # None THEN get_pds(pin.low.expr) ELSE <<>>)
               \o PinsPds(Tail(ps))

\* the keys of the dict get_all_pds returns
get_all_pds(ps) == Dedup(PinsPds(ps))

\* get_all_pds reads pin.high.expr: AttributeError when pin.high is None
HighIsNone(ps) == \E i \in DOMAIN ps : ps[i].high = None

\* a lookup that matches a descriptor only when it is exactly the bit asked for
RECURSIVE expr_uses_bits_exact(_, _)
expr_uses_bits_exact(expr, bit) ==
    IF is_simple(expr)
    THEN expr.a.mask = bit.mask /\ expr.a.reg = bit.reg
    ELSE expr_uses_bits_exact(expr.a, bit) \/ expr_uses_bits_exact(expr.b, bit)

RECURSIVE expr_uses_bits(_, _)
expr_uses_bits(expr, bit) ==
    IF is_simple(expr)
    THEN (expr.a.mask \cap bit.mask) # {} /\ expr.a.reg = bit.reg
    ELSE expr_uses_bits(expr.a, bit) \/ expr_uses_bits(expr.b, bit)

sig_uses_bits(sig, bit) == expr_uses_bits(sig.expr, bit)

\* a lookup that leaves the low signals out
RECURSIVE get_bit_sigs_high(_, _)
get_bit_sigs_high(ps, bit) ==
    IF ps = <<>> THEN <<>>
    ELSE LET pin == Head(ps)
         IN  (IF sig_uses_bits(pin.high, bit) THEN <<pin.high>> ELSE <<>>)
               \o get_bit_sigs_high(Tail(ps), bit)

RECURSIVE get_bit_sigs(_, _)
get_bit_sigs(ps, bit) ==
    IF ps = <<>> THEN <<>>
    ELSE LET pin == Head(ps)
         IN  (IF sig_uses_bits(pin.high, bit) THEN <<pin.high>> ELSE <<>>)
               \o (IF pin.low # None /\ sig_uses_bits(pin.low, bit)
                   THEN <<pin.low>> ELSE <<>>)
               \o get_bit_sigs(Tail(ps), bit)

\* How the first get_bit_sigs call ends on this pin, if it stops there:
\* "exit" (print(pin); sys.exit(1)), "attr" (is_simple(None)), "" (goes on)
PinStop(pin) ==
    IF pin.high.expr = None THEN "exit"
    ELSE IF pin.low # None /\ pin.low.expr = None THEN "attr"
    ELSE ""

Stops(ps) == {i \in DOMAIN ps : PinStop(ps[i]) # ""}

FirstStop(ps) == CHOOSE i \in Stops(ps) : \A j \in Stops(ps) : i <= j

\* a frozenset of small ints iterates in ascending order
RECURSIVE SetToSeq(_)
SetToSeq(S) ==
    IF S = {} THEN <<>>
    ELSE LET m == CHOOSE x \in S : \A y \in S : x <= y
         IN  <<m>> \o SetToSeq(S \ {m})

explode_pd(pd) ==
    LET bits == SetToSeq(pd.mask)
    IN  [i \in DOMAIN bits |-> pd_t(pd.reg, {bits[i]})]

RECURSIVE gen_bit_sigs_lookup(_, _)
gen_bit_sigs_lookup(pdl, ps) ==
    IF pdl = <<>> THEN [b \in {} |-> <<>>]
    ELSE LET lookup == gen_bit_sigs_lookup(SubSeq(pdl, 1, Len(pdl) - 1), ps)
             pd     == pdl[Len(pdl)]
             sigs   == get_bit_sigs(ps, pd)
             bits   == SeqToSet(explode_pd(pd))
         IN  [b \in (DOMAIN lookup) \cup bits |->
                  IF b \in bits THEN sigs ELSE lookup[b]]

RECURSIVE Flatten(_)
Flatten(ss) == IF ss = <<>> THEN <<>> ELSE Head(ss) \o Flatten(Tail(ss))

\* lines 226-228: the queue a seed descriptor starts with
SeedQueue(pd, lookup) ==
    LET bits == explode_pd(pd)
    IN  Flatten([i \in DOMAIN bits |-> lookup[bits[i]]])

\* line 238: is nsig already queued or collected
Known(nsig, queue, rel) == InSeq(nsig, queue) \/ InSeq(nsig, rel)

\* a flood fill that never extends its queue
NewSigs_none(sig, queue, rel, lookup) == <<>>

\* lines 233-239: the batch nsigs found from one popped signal
NewSigs(sig, queue, rel, lookup) ==
    LET sigpds == get_simple_pds(sig.expr)
        cands  == Flatten([i \in DOMAIN sigpds |-> SeedQueue(sigpds[i], lookup)])
    IN  SelectSeq(cands, LAMBDA nsig : ~Known(nsig, queue, rel))

\* a flood fill that does not record the signal it popped
AddRel_forget(rel, sig) == rel

\* line 232: rels.append(sig)
AddRel(rel, sig) == Append(rel, sig)

-----------------------------------------------------------------------------
(* print_networks: pure helpers *)

\* the index of the first pin that carries sig (get_sig_pin returns that pin)
get_sig_pin(ps, sig) ==
    LET at == {i \in DOMAIN ps : sig \in {ps[i].high, ps[i].low}}
    IN  ps[CHOOSE i \in at : \A j \in at : i <= j]

\* blah: the pins of a network, each with its signals of the network
BlahPins(ps, net) == {get_sig_pin(ps, sig) : sig \in net}

BlahSigs(ps, net, pin) == {sig \in net : get_sig_pin(ps, sig) = pin}

\* frozenset(pds) of one pin: the descriptors of its signals in the network
PinPdSet(ps, net, pin) ==
    UNION {SeqToSet(get_pds(sig.expr)) : sig \in BlahSigs(ps, net, pin)}

\* c[bit] after every pin updated the Counter
Count(ps, net, bit) ==
    Cardinality({pin \in BlahPins(ps, net) : bit \in PinPdSet(ps, net, pin)})

NetPds(ps, net) == UNION {PinPdSet(ps, net, pin) : pin \in BlahPins(ps, net)}

RECURSIVE SumCounts(_, _, _)
SumCounts(ps, net, bits) ==
    IF bits = {} THEN 0
    ELSE LET b == CHOOSE x \in bits : TRUE
         IN  Count(ps, net, b) + SumCounts(ps, net, bits \ {b})

\* a report that counts every descriptor of the network as common
RelBits_all(ps, net) == NetPds(ps, net)

\* lines 261-263
RelBits(ps, net) ==
    LET all == NetPds(ps, net)
    IN  {bit \in all : Count(ps, net, bit) > 1
                         \/ SumCounts(ps, net, all) = Cardinality(all)}

\* one network's report.  common: the (bit, count) pairs of the "Common
\* bits" line; members: one (group, signal names, selbits) line per pin.
\* net records which network the report is for (not printed).
Report(ps, net) ==
    LET relbits == RelBits(ps, net)
    IN  [net     |-> net,
         common  |-> {<<bit, Count(ps, net, bit)>> : bit \in relbits},
         members |-> {[other   |-> pin.other,
                       sigs    |-> {sig.sig : sig \in BlahSigs(ps, net, pin)},
                       selbits |-> PinPdSet(ps, net, pin) \ relbits]
                        : pin \in BlahPins(ps, net)}]

-----------------------------------------------------------------------------
(* The batch run: gen_pins, find_networks, print_networks *)

GenPins ==
    /\ pc = "gen_pins"
    /\ pins' = gen_pins(lines, filt)
    /\ pc' = "get_all_pds"
    /\ UNCHANGED <<lines, filt, pds, bsigs, pdi, q, rels, nets, netset, todo,
                   allbits, out, diag, exc, ptoks, psrc, presult>>

\* line 222
GetAllPds ==
    /\ pc = "get_all_pds"
    /\ IF HighIsNone(pins)
       THEN pc' = "abort" /\ exc' = "AttributeError" /\ pds' = pds
       ELSE pc' = "lookup" /\ exc' = exc /\ pds' = get_all_pds(pins)
    /\ UNCHANGED <<lines, filt, pins, bsigs, pdi, q, rels, nets, netset, todo,
                   allbits, out, diag, ptoks, psrc, presult>>

\* line 223.  get_bit_sigs runs once per descriptor; the first call already
\* meets every pin, so a run that stops does so in that call.
GenBitSigsLookup ==
    /\ pc = "lookup"
    /\ IF pds # <<>> /\ Stops(pins) # {}
       THEN LET pin == pins[FirstStop(pins)]
            IN  /\ pc' = "abort"
                /\ bsigs' = bsigs
                /\ IF PinStop(pin) = "exit"
                   THEN diag' = Append(diag, pin) /\ exc' = "SystemExit"
                   ELSE diag' = diag /\ exc' = "AttributeError"
       ELSE /\ pc' = "seed"
            /\ bsigs' = gen_bit_sigs_lookup(pds, pins)
            /\ UNCHANGED <<diag, exc>>
    /\ UNCHANGED <<lines, filt, pins, pds, pdi, q, rels, nets, netset, todo,
                   allbits, out, ptoks, psrc, presult>>

\* lines 225-229: the next descriptor of pds seeds a flood fill
Seed ==
    /\ pc = "seed"
    /\ pdi <= Len(pds)
    /\ q' = SeedQueue(pds[pdi], bsigs)
    /\ rels' = <<>>
    /\ pc' = "flood"
    /\ UNCHANGED <<lines, filt, pins, pds, bsigs, pdi, nets, netset, todo,
                   allbits, out, diag, exc, ptoks, psrc, presult>>

\* lines 230-240: one turn of the while loop
Pop ==
    /\ pc = "flood"
    /\ q # <<>>
    /\ LET sig == q[Len(q)]
           q1  == SubSeq(q, 1, Len(q) - 1)
           r1  == AddRel(rels, sig)
       IN  /\ rels' = r1
           /\ q' = q1 \o NewSigs(sig, q1, r1, bsigs)
    /\ UNCHANGED <<lines, filt, pins, pc, pds, bsigs, pdi, nets, netset, todo,
                   allbits, out, diag, exc, ptoks, psrc, presult>>

\* line 241: the queue is empty, the component is complete
Collect ==
    /\ pc = "flood"
    /\ q = <<>>
    /\ nets' = Append(nets, rels)
    /\ pdi' = pdi + 1
    /\ pc' = "seed"
    /\ UNCHANGED <<lines, filt, pins, pds, bsigs, q, rels, netset, todo,
                   allbits, out, diag, exc, ptoks, psrc, presult>>

\* line 242, and line 246 entering the loop over sorted(nets)
Return ==
    /\ pc = "seed"
    /\ pdi > Len(pds)
    /\ netset' = {SeqToSet(nets[i]) : i \in DOMAIN nets}
    /\ todo' = netset'
    /\ pc' = "print"
    /\ UNCHANGED <<lines, filt, pins, pds, bsigs, pdi, q, rels, nets,
                   allbits, out, diag, exc, ptoks, psrc, presult>>

\* lines 246-278 for one network of two or more signals.  sorted() orders
\* frozensets by the subset relation, which leaves disjoint networks in
\* the set's hash order: any not yet visited network may come next.
\* Networks of fewer than two signals are passed over (line 247-248).
PrintNetwork(net) ==
    /\ pc = "print"
    /\ net \in todo
    /\ Cardinality(net) >= 2
    /\ LET rep     == Report(pins, net)
           relbits == {cb[1] : cb \in rep.common}
       IN  /\ out' = Append(out, rep)
           /\ IF allbits \cap relbits # {}
              THEN pc' = "abort" /\ exc' = "AssertionError"
                   /\ UNCHANGED <<allbits, todo>>
              ELSE pc' = pc /\ exc' = exc
                   /\ allbits' = allbits \cup relbits
                   /\ todo' = todo \ {net}
    /\ UNCHANGED <<lines, filt, pins, pds, bsigs, pdi, q, rels, nets, netset,
                   diag, ptoks, psrc, presult>>

Finish ==
    /\ pc = "print"
    /\ \A net \in todo : Cardinality(net) < 2
    /\ pc' = "done"
    /\ todo' = {}
    /\ UNCHANGED <<lines, filt, pins, pds, bsigs, pdi, q, rels, nets, netset,
                   allbits, out, diag, exc, ptoks, psrc, presult>>

Next ==
    \/ GenPins
    \/ GetAllPds
    \/ GenBitSigsLookup
    \/ Seed
    \/ Pop
    \/ Collect
    \/ Return
    \/ \E net \in todo : PrintNetwork(net)
    \/ Finish

-----------------------------------------------------------------------------
(* The parser on its own: parse_expr applied to one token list *)

ParseExpr ==
    /\ pc = "parse"
    /\ presult' = parse_expr(ptoks, None)
    /\ pc' = "parsed"
    /\ UNCHANGED <<netvars, ptoks, psrc>>

ParseNext == ParseExpr

-----------------------------------------------------------------------------
(* Inputs *)

MaxLines == 2       \* lines in the pin table
MaxToks  == 3       \* tokens in a free-form token list given to parse_expr
MaxTerms == 3       \* comparisons in a written-out chain given to parse_expr

Name(s) == <<W(s)>>

A0  == PdLex("SCU80", <<<<0>>>>)          \* SCU80[0]
A1  == PdLex("SCU80", <<<<1>>>>)          \* SCU80[1]
A10 == PdLex("SCU80", <<<<1, 0>>>>)       \* SCU80[1:0]
B0  == PdLex("SCU84", <<<<0>>>>)          \* SCU84[0]
C0  == PdLex("SCU88", <<<<0>>>>)          \* SCU88[0]

OpLex(op) == IF op = "!=" THEN <<Ch("!"), Ch("=")>> ELSE <<Ch(op)>>

\* the token REG[..]=n or REG[..]!=n
Cmp(pdlex, op, lit) == <<pdlex>> \o OpLex(op) \o <<Ch(lit)>>

And == <<Ch("&")>>

Or == <<Ch("|")>>

\* pin default [clauses] group
Line(pin, default, clauses, other) ==
    <<Name(pin), Name(default)>> \o clauses \o <<Name(other)>>

LineSet ==
    { <<>>,
      Line("P1", "D1", <<Name("H1"), Cmp(A0, "=", "1")>>, "G1"),
      Line("P2", "D2", <<Name("H2"), Cmp(A1, "!=", "0")>>, "G1"),
      Line("P3", "D3", <<Name("H3"), Cmp(A10, "=", "1")>>, "G1"),
      Line("P4", "D4", <<Name("H4"), Cmp(B0, "=", "1")>>, "G1"),
      Line("P5", "D5", <<Name("H5"), Cmp(A0, "=", "1"), And, Cmp(B0, "=", "1")>>, "G1"),
      Line("P6", "D6", <<Name("H6"), Cmp(A0, "=", "1"), And, Cmp(C0, "!=", "1")>>, "G1"),
      Line("P7", "D7", <<Name("H7"), Cmp(A10, "=", "2"), Or, Cmp(B0, "=", "1")>>, "G1"),
      Line("P8", "D8", <<Name("H8"), Cmp(A0, "=", "1"),
                         Name("L8"), Cmp(A1, "=", "1")>>, "G1"),
      Line("P9", "D9", <<Name("H9"), Cmp(A0, "=", "1"),
                         Name("L9"), Cmp(A0, "=", "0"), And, Cmp(A1, "=", "1")>>, "G1"),
      Line("P10", "D10", <<Name("H10"), Cmp(B0, "=", "1"),
                           Name("L10"), Cmp(B0, "=", "0")>>, "G2"),
      Line("P11", "D11", <<>>, "G1"),
      Line("P12", "D12", <<Name("H12")>>, "G1"),
      Line("P13", "D13", <<Name("H13"), Cmp(A0, "=", "1"), Name("L13")>>, "G1"),
      Line("P14", "D14", <<>>, "G2"),
      Line("P15", "D15", <<Name("H15"), Cmp(C0, "=", "1"),
                           Name("L15"), Cmp(C0, "=", "0")>>, "G1"),
      Line("P16", "D16", <<Name("H16"), Cmp(A10, "=", "3"),
                           Name("L16"), Cmp(A1, "=", "1")>>, "G1"),
      Line("P17", "D17", <<Name("H17"), Cmp(A0, "=", "1"), And, Cmp(B0, "=", "1"),
                           Or, Cmp(C0, "=", "1")>>, "G1") }

Corpora == UNION {[1 .. n -> LineSet] : n \in 0 .. MaxLines}

Filters == {<<>>, <<Name("G1")>>}

NoSrc == [style |-> "raw"]

RawToks ==
    { <<>>, Cmp(A0, "=", "1"), <<B0>>, <<Ch("5")>>, And, Or, <<Ch("=")>>,
      <<A0, Ch("=")>>, Name("H") }

RawInputs == UNION {[1 .. n -> RawToks] : n \in 0 .. MaxToks}

Terms == [pd : {A0, A10, B0}, op : {"=", "!="}, lit : {"0", "1"}]

Chains ==
    UNION {[style : {"packed", "spaced"},
            terms : [1 .. n -> Terms],
            ops   : [1 .. n - 1 -> {"&", "|"}]] : n \in 1 .. MaxTerms}

\* a chain written out: each comparison one token, or each of its three
\* parts a token of its own; the combinators always stand alone
RenderTerm(t, style) ==
    IF style = "packed" THEN <<Cmp(t.pd, t.op, t.lit)>>
    ELSE <<<<t.pd>>, OpLex(t.op), <<Ch(t.lit)>>>>

RECURSIVE Render(_, _)
Render(src, n) ==
    IF n = 0 THEN <<>>
    ELSE Render(src, n - 1)
           \o (IF n > 1 THEN <<<<Ch(src.ops[n - 1])>>>> ELSE <<>>)
           \o RenderTerm(src.terms[n], src.style)

NetIdle ==
    /\ lines = <<>> /\ filt = <<>> /\ pins = <<>> /\ pds = <<>> /\ bsigs = <<>>
    /\ pdi = 1 /\ q = <<>> /\ rels = <<>> /\ nets = <<>> /\ netset = {}
    /\ todo = {} /\ allbits = {} /\ out = <<>> /\ diag = <<>> /\ exc = ""

Init ==
    /\ lines \in Corpora
    /\ filt \in Filters
    /\ pins = <<>> /\ pds = <<>> /\ bsigs = <<>>
    /\ pdi = 1 /\ q = <<>> /\ rels = <<>> /\ nets = <<>> /\ netset = {}
    /\ todo = {} /\ allbits = {} /\ out = <<>> /\ diag = <<>> /\ exc = ""
    /\ pc = "gen_pins"
    /\ ptoks = <<>> /\ psrc = NoSrc /\ presult = [val |-> None, rest |-> <<>>]

ParseInit ==
    /\ NetIdle
    /\ pc = "parse"
    /\ \/ psrc = NoSrc /\ ptoks \in RawInputs
       \/ psrc \in Chains /\ ptoks = Render(psrc, Len(psrc.terms))
    /\ presult = [val |-> None, rest |-> <<>>]

\* the tables the flood fill is followed on step by step
LiveLineSet ==
    { Line("P1", "D1", <<Name("H1"), Cmp(A0, "=", "1")>>, "G1"),
      Line("P3", "D3", <<Name("H3"), Cmp(A10, "=", "1")>>, "G1"),
      Line("P5", "D5", <<Name("H5"), Cmp(A0, "=", "1"), And, Cmp(B0, "=", "1")>>, "G1"),
      Line("P7", "D7", <<Name("H7"), Cmp(A10, "=", "2"), Or, Cmp(B0, "=", "1")>>, "G1"),
      Line("P8", "D8", <<Name("H8"), Cmp(A0, "=", "1"),
                         Name("L8"), Cmp(A1, "=", "1")>>, "G1"),
      Line("P9", "D9", <<Name("H9"), Cmp(A0, "=", "1"),
                         Name("L9"), Cmp(A0, "=", "0"), And, Cmp(A1, "=", "1")>>, "G1"),
      Line("P16", "D16", <<Name("H16"), Cmp(A10, "=", "3"),
                           Name("L16"), Cmp(A1, "=", "1")>>, "G1") }

LiveCorpora == UNION {[1 .. n -> LiveLineSet] : n \in 0 .. MaxLines}

LiveInit == Init /\ lines \in LiveCorpora /\ filt = <<>>

Spec == Init /\ [][Next]_vars

\* find_networks runs in one thread: a step of its loops that can be taken
\* is taken
FairSpec ==
    /\ LiveInit /\ [][Next]_vars
    /\ WF_vars(Seed) /\ WF_vars(Pop) /\ WF_vars(Collect) /\ WF_vars(Return)

ParseSpec == ParseInit /\ [][ParseNext]_vars

-----------------------------------------------------------------------------
(* Vocabulary of the properties *)

\* every signal find_networks meets has an expression
AllUsable(ps) ==
    \A i \in DOMAIN ps :
        /\ ps[i].high # None /\ ps[i].high.expr # None
        /\ ps[i].low # None => ps[i].low.expr # None

\* the retained pins without a usable high-signal expression
Unusable(ps) ==
    {i \in DOMAIN ps : ps[i].high = None \/ ps[i].high.expr = None}

AllSigs(ps) == UNION {SeqToSet(PinSigs(ps[i])) : i \in DOMAIN ps}

Leaves(sig) == SeqToSet(get_pds(sig.expr))

\* the individual bits (register, one position) a descriptor stands for
BitsOf(pd) == {pd_t(pd.reg, {n}) : n \in pd.mask}

SigBits(sig) == UNION {BitsOf(pd) : pd \in Leaves(sig)}

ShareBit(s, t) == SigBits(s) \cap SigBits(t) # {}

RECURSIVE Grow(_, _)
Grow(S, all) ==
    LET S2 == S \cup {t \in all : \E u \in S : ShareBit(u, t)}
    IN  IF S2 = S THEN S ELSE Grow(S2, all)

\* a chain of signals from s to t, consecutive ones sharing a bit
Connected(s, t, all) == t \in Grow({s}, all)

SameNet(s, t) == \E n \in netset : s \in n /\ t \in n

Built == pc \in {"print", "done"}

-----------------------------------------------------------------------------
(* Properties *)

\* C1: for a corpus whose signals all have an expression, the networks
\* find_networks returns partition the signal set: every signal is in
\* exactly one network, the union of the networks is the set of all signals,
\* and two distinct networks have no signal in common.
C1_Partition ==
    (Built /\ AllUsable(pins)) =>
        /\ UNION netset = AllSigs(pins)
        /\ \A s \in AllSigs(pins) : Cardinality({n \in netset : s \in n}) = 1
        /\ \A n1, n2 \in netset : n1 # n2 => n1 \cap n2 = {}
        /\ {} \notin netset

C1_Witness ==
    /\ pc = "done" /\ AllUsable(pins)
    /\ Cardinality(netset) >= 2
    /\ \E n \in netset : Cardinality(n) >= 2

\* C2: two signals are in the same network exactly when a chain of signals
\* joins them in which consecutive signals reference a common individual
\* bit, whatever the order of the descriptors and also when descriptors
\* overlap only in part (SCU80[1:0] and SCU80[1]).
C2_MaximalConnected ==
    (Built /\ AllUsable(pins)) =>
        \A s, t \in AllSigs(pins) :
            SameNet(s, t) <=> Connected(s, t, AllSigs(pins))

\* a network joined only through a chain, over partly overlapping descriptors
C2_Witness ==
    /\ pc = "done" /\ AllUsable(pins)
    /\ \E n \in netset : \E s, t \in n :
          /\ ~ShareBit(s, t)
          /\ \E u \in n : \E x \in Leaves(s), y \in Leaves(u) :
                x # y /\ x.reg = y.reg /\ x.mask \cap y.mask # {}

CommonBits(rep) == UNION {BitsOf(cb[1]) : cb \in rep.common}

\* C3: the common-bit sets of two distinct reported networks never
\* intersect: the assertion of print_networks holds at every network and
\* the run never aborts on it.
C3_CommonDisjoint ==
    /\ exc # "AssertionError"
    /\ \A i, j \in DOMAIN out :
          i # j => CommonBits(out[i]) \cap CommonBits(out[j]) = {}

C3_Witness == pc = "done" /\ Len(out) >= 2

\* the pins of a report's network that reference an individual bit
PinsWithBit(rep, b) ==
    {pin \in BlahPins(pins, rep.net) :
        \E sig \in BlahSigs(pins, rep.net, pin) : b \in SigBits(sig)}

MemberOf(rep, pin) ==
    {m \in rep.members :
        m.sigs = {sig.sig : sig \in BlahSigs(pins, rep.net, pin)}}

\* C4: in every reported network a bit is common exactly when that
\* individual bit is referenced by more than one pin of the network or by
\* every pin of it (a pin counting once for its high and low signal
\* together); any other bit a pin references is in that pin's
\* distinguishing set only.
C4_CommonIffShared ==
    \A i \in DOMAIN out :
        LET rep == out[i]
            np  == Cardinality(BlahPins(pins, rep.net))
        IN  \A b \in UNION {SigBits(sig) : sig \in rep.net} :
                LET k == Cardinality(PinsWithBit(rep, b))
                IN  IF k > 1 \/ k = np
                    THEN b \in CommonBits(rep)
                    ELSE /\ b \notin CommonBits(rep)
                         /\ \A pin \in BlahPins(pins, rep.net) :
                              \A m \in MemberOf(rep, pin) :
                                (b \in UNION {BitsOf(pd) : pd \in m.selbits})
                                   <=> pin \in PinsWithBit(rep, b)

\* the single-bit descriptor d both high signals test, every other
\* descriptor of the corpus touching bits no other signal references
C5_Case(d) ==
    /\ Len(pins) = 2 /\ AllUsable(pins)
    /\ pins[1].high # pins[2].high
    /\ Cardinality(d.mask) = 1
    /\ d \in Leaves(pins[1].high) /\ d \in Leaves(pins[2].high)
    /\ \A s \in AllSigs(pins) : \A pd \in Leaves(s) :
          \/ pd = d /\ s \in {pins[1].high, pins[2].high}
          \/ \A t \in AllSigs(pins) \ {s} : BitsOf(pd) \cap SigBits(t) = {}

C5_Descriptors == {pd_t(r, {n}) : r \in {"SCU80", "SCU84", "SCU88"}, n \in 0 .. 1}

\* C5: two pins whose high signals both test one single-bit descriptor and
\* otherwise reference bits of their own end up in one network, reported
\* with that bit common at count 2 and no other bit common.
C5_SharedBitScenario ==
    \A d \in C5_Descriptors :
        (pc = "done" /\ C5_Case(d)) =>
            /\ SameNet(pins[1].high, pins[2].high)
            /\ \E i \in DOMAIN out :
                  /\ {pins[1].high, pins[2].high} \subseteq out[i].net
                  /\ out[i].common = {<<d, 2>>}
            /\ \A i \in DOMAIN out : out[i].common \subseteq {<<d, 2>>}

\* both pins carry further bits of their own
C5_Witness ==
    /\ pc = "done"
    /\ \E d \in C5_Descriptors :
          /\ C5_Case(d)
          /\ Leaves(pins[1].high) # {d} /\ Leaves(pins[2].high) # {d}

\* C6: a retained pin without a usable high-signal expression (no high
\* clause, or a name with no expression) ends the run in the abort state,
\* with a diagnostic that identifies the pin and no network report, whatever
\* else the corpus holds, also when it is the only pin.
C6_MalformedAborts ==
    (pc \in {"done", "abort"} /\ Unusable(pins) # {}) =>
        /\ pc = "abort"
        /\ out = <<>>
        /\ diag # <<>>
        /\ \E i \in Unusable(pins) : diag[1] = pins[i]

\* the individual bits that occur in a descriptor of the corpus
BitKeys == UNION {BitsOf(pds[i]) : i \in DOMAIN pds}

\* C8: the lookup gen_bit_sigs_lookup builds maps every individual bit of
\* the corpus to exactly the signals whose expression references that bit:
\* none missing, none that does not reference it.
C8_ExactIndex ==
    pc \in {"seed", "flood", "print", "done"} =>
        \A b \in BitKeys :
            /\ b \in DOMAIN bsigs
            /\ SeqToSet(bsigs[b]) = {s \in AllSigs(pins) : b \in SigBits(s)}

\* C9: every flood fill find_networks starts reaches an empty queue and
\* find_networks returns, although the queue is seeded once per bit of the seed
\* descriptor and one batch may enqueue a signal more than once.
C9_Terminates ==
    /\ (pc = "flood") ~> (pc = "flood" /\ q = <<>>)
    /\ (pc = "seed") ~> (pc = "print")

\* a signal stands in the queue twice
C9_Witness ==
    /\ pc = "flood"
    /\ \E i, j \in DOMAIN q : i < j /\ q[i] = q[j]

-----------------------------------------------------------------------------
(* Properties of the parser *)

\* the tree (((c1 o1 c2) o2 c3) ... cn) of a chain
Simple(t) == bop_t(t.op, pd_t(t.pd.reg, get_mask_bits(t.pd.spec)), Lit(<<Ch(t.lit)>>))

RECURSIVE LeftTree(_, _)
LeftTree(src, n) ==
    IF n = 1 THEN Simple(src.terms[1])
    ELSE bop_t(src.ops[n - 1], LeftTree(src, n - 1), Simple(src.terms[n]))

\* C7: parse_expr builds the left-associative tree of a chain of
\* comparisons joined by & and |, leaves in source order; the chain written
\* with every part a token of its own (A = 1 & B = 0) parses to the same
\* tree as the chain written A=1 & B=0.
C7_LeftAssociative ==
    (pc = "parsed" /\ psrc # NoSrc) =>
        presult.val = LeftTree(psrc, Len(psrc.terms))

\* the part of C7 that the code meets: each comparison one token
C7_PackedLeftAssociative ==
    (pc = "parsed" /\ psrc # NoSrc /\ psrc.style = "packed") =>
        presult.val = LeftTree(psrc, Len(psrc.terms))

RECURSIVE WellFormed(_)
WellFormed(e) ==
    /\ e.k = "bop"
    /\ IF e.type \in {"=", "!="}
       THEN e.a.k = "pd" /\ e.b.k = "lit"
       ELSE WellFormed(e.a) /\ WellFormed(e.b)

\* C10: every expression parse_expr returns, for any token list, is well
\* formed: each leaf a comparison of a descriptor with a literal, each & or
\* | node with two expressions below it, never a bare descriptor or literal.
C10_WellFormed ==
    (pc = "parsed" /\ presult.val # None) => WellFormed(presult.val)

=============================================================================
